---- MODULE Spec2Model ----
(***************************************************************************)
(* Model of src/ui.py: the EducationDashboard window of the University     *)
(* Resources & Outcomes dashboard.  The state is the loaded DataFrame      *)
(* (self.df), the three Tk string variables behind the comboboxes, the     *)
(* comboboxes' value lists, the three summary labels, the chart frame and  *)
(* the preview table.  The actions are the four things a user can do:      *)
(* press "Load CSV Dataset", press "Load from Database", pick an entry of  *)
(* a combobox, press "Update Charts".                                      *)
(*                                                                         *)
(* Python strings are sequences of one-character strings, so that lower(), *)
(* strip(), substring tests, str() of a number and the code-point order    *)
(* used by sorted() are computed and not assumed.                          *)
(***************************************************************************)
EXTENDS Integers, Sequences, FiniteSets, TLC

\* ------------------------------------------------------------------------
\* Bounds of the model
\* ------------------------------------------------------------------------

\* Largest number of records of a Dataset handed over by a data provider.
MaxRows == 3

\* ------------------------------------------------------------------------
\* Python str
\* ------------------------------------------------------------------------

\* The characters in use, in ascending code-point order.
Chars ==
  << " ", "(", ")",
     "0", "1", "2", "3", "4", "5", "6", "7", "8", "9",
     "A", "B", "C", "D", "E", "F", "G", "H", "I", "J", "K", "L", "M",
     "N", "O", "P", "Q", "R", "S", "T", "U", "V", "W", "X", "Y", "Z",
     "_",
     "a", "b", "c", "d", "e", "f", "g", "h", "i", "j", "k", "l", "m",
     "n", "o", "p", "q", "r", "s", "t", "u", "v", "w", "x", "y", "z" >>

\* Position of a character in the code-point order.
Ord(c) == CHOOSE i \in 1..Len(Chars) : Chars[i] = c

Digits == << "0", "1", "2", "3", "4", "5", "6", "7", "8", "9" >>

UpperCase ==
  << "A", "B", "C", "D", "E", "F", "G", "H", "I", "J", "K", "L", "M",
     "N", "O", "P", "Q", "R", "S", "T", "U", "V", "W", "X", "Y", "Z" >>

LowerCase ==
  << "a", "b", "c", "d", "e", "f", "g", "h", "i", "j", "k", "l", "m",
     "n", "o", "p", "q", "r", "s", "t", "u", "v", "w", "x", "y", "z" >>

DigitSet == { Digits[i] : i \in 1..Len(Digits) }

UpperSet == { UpperCase[i] : i \in 1..Len(UpperCase) }

LowerSet == { LowerCase[i] : i \in 1..Len(LowerCase) }

IsDigit(c) == c \in DigitSet

DigitValue(c) == CHOOSE v \in 0..9 : Digits[v + 1] = c

IsUpper(c) == c \in UpperSet

IsLower(c) == c \in LowerSet

\* str.lower() / str.upper() on one character.
LowerChar(c) ==
  IF IsUpper(c) THEN LowerCase[CHOOSE i \in 1..Len(UpperCase) : UpperCase[i] = c] ELSE c

UpperChar(c) ==
  IF IsLower(c) THEN UpperCase[CHOOSE i \in 1..Len(LowerCase) : LowerCase[i] = c] ELSE c

\* str.lower()
Lower(s) == [i \in 1..Len(s) |-> LowerChar(s[i])] \o << >>

\* str.strip(): leading and trailing whitespace removed.
RECURSIVE LStrip(_)
LStrip(s) == IF s # << >> /\ Head(s) = " " THEN LStrip(Tail(s)) ELSE s

RECURSIVE RStrip(_)
RStrip(s) ==
  IF s # << >> /\ s[Len(s)] = " " THEN RStrip(SubSeq(s, 1, Len(s) - 1)) ELSE s

Strip(s) == RStrip(LStrip(s))

\* sub in s
Contains(s, sub) ==
  \E i \in 0..(Len(s) - Len(sub)) : SubSeq(s, i + 1, i + Len(sub)) = sub

\* s < t for two str: code-point order, a proper prefix first.
RECURSIVE StrLess(_, _)
StrLess(s, t) ==
  IF t = << >> THEN FALSE
  ELSE IF s = << >> THEN TRUE
  ELSE IF Head(s) = Head(t) THEN StrLess(Tail(s), Tail(t))
  ELSE Ord(Head(s)) < Ord(Head(t))

\* str(n) for a non-negative int.
RECURSIVE StrOfNat(_)
StrOfNat(n) ==
  IF n < 10 THEN << Digits[n + 1] >>
  ELSE StrOfNat(n \div 10) \o << Digits[(n % 10) + 1] >>

\* int(s) for a str of decimal digits.
RECURSIVE NatOfStr(_)
NatOfStr(s) ==
  IF s = << >> THEN 0
  ELSE 10 * NatOfStr(SubSeq(s, 1, Len(s) - 1)) + DigitValue(s[Len(s)])

IsDigitStr(s) == s # << >> /\ \A i \in 1..Len(s) : IsDigit(s[i])

\* ------------------------------------------------------------------------
\* pandas values and DataFrames
\* ------------------------------------------------------------------------

\* A cell of a DataFrame: an int, a str, or missing.  A missing cell is the
\* float NaN (an empty CSV field) or the object None (a SQL NULL).
Num(n) == [s |-> << >>, n |-> n, tag |-> "Num"]

Text(s) == [s |-> s, n |-> 0, tag |-> "Text"]

NaNCell == [s |-> << >>, n |-> 0, tag |-> "NaN"]

NoneCell == [s |-> << >>, n |-> 0, tag |-> "None"]

\* pd.isna / pd.notna
isna(c) == c.tag \in {"NaN", "None"}

notna(c) == ~isna(c)

\* pd.to_numeric(..., errors='coerce') on one cell: a number stays, a str of
\* digits is parsed, everything else becomes NaN.
to_numeric(c) ==
  IF c.tag = "Num" THEN c
  ELSE IF c.tag = "Text" /\ IsDigitStr(Strip(c.s)) THEN Num(NatOfStr(Strip(c.s)))
  ELSE NaNCell

\* str(value): the text a Tk widget holds for a value it was handed.
StrOfCell(c) == IF c.tag = "Num" THEN StrOfNat(c.n) ELSE c.s

\* a < b as sorted() compares two values of one column (two int, or two str).
CellLess(a, b) ==
  IF a.tag = "Num" /\ b.tag = "Num" THEN a.n < b.n
  ELSE StrLess(StrOfCell(a), StrOfCell(b))

\* sorted(values, key=str): what the option lists would be if the values were
\* ordered by their string form.  Not what setup_ui_after_load calls; C8 is
\* checked to tell the two apart.
RECURSIVE sorted_key_str(_)
sorted_key_str(S) ==
  IF S = {} THEN << >>
  ELSE LET m == CHOOSE x \in S : \A y \in S \ {x} : StrLess(StrOfCell(x), StrOfCell(y))
       IN  << m >> \o sorted_key_str(S \ {m})

\* sorted(values) for a set of distinct values of one type.
RECURSIVE sorted(_)
sorted(S) ==
  IF S = {} THEN << >>
  ELSE LET m == CHOOSE x \in S : \A y \in S \ {x} : CellLess(x, y)
       IN  << m >> \o sorted(S \ {m})

\* pd.DataFrame(): no column, no row.
EmptyDataFrame == [columns |-> << >>, rows |-> << >>]

\* DataFrame.empty: some axis has length 0.
empty(d) == Len(d.columns) = 0 \/ Len(d.rows) = 0

\* col in d.columns
HasColumn(d, col) == \E i \in 1..Len(d.columns) : d.columns[i] = col

\* The label col names more than one column: d[col] is then a DataFrame, not a
\* Series.
IsDuplicated(d, col) ==
  Cardinality({ i \in 1..Len(d.columns) : d.columns[i] = col }) > 1

ColIdx(d, col) ==
  CHOOSE i \in 1..Len(d.columns) :
    d.columns[i] = col /\ \A j \in 1..(i - 1) : d.columns[j] # col

\* The j-th cell of every row.
ColumnAt(rows, j) == [i \in 1..Len(rows) |-> rows[i][j]]

\* d[col] as the sequence of its cells, one per row.
Column(d, col) == ColumnAt(d.rows, ColIdx(d, col))

\* Series.dropna().unique(): the distinct non-missing values.
dropna_unique(series) ==
  { series[i] : i \in { j \in 1..Len(series) : notna(series[j]) } }

\* Sum of a sequence of numeric cells.
RECURSIVE SumCells(_)
SumCells(cs) == IF cs = << >> THEN 0 ELSE Head(cs).n + SumCells(Tail(cs))

\* The non-missing cells of a series after to_numeric, in order.
NumericCells(series) ==
  SelectSeq([i \in 1..Len(series) |-> to_numeric(series[i])], notna)


\* ------------------------------------------------------------------------
\* Column roles and numeric columns
\* ------------------------------------------------------------------------

\* The "(All)" entry that heads both filter comboboxes.
ALL == << "(", "A", "l", "l", ")" >>

\* 'name' in col_lower and 'state' not in col_lower
NameTest(col_lower) ==
  /\ Contains(col_lower, << "n", "a", "m", "e" >>)
  /\ ~Contains(col_lower, << "s", "t", "a", "t", "e" >>)

\* 'name' in col.lower(), without the test for 'state'.  Not what
\* detect_columns tests; C9 is checked to tell the two apart.
IsNamedColumn(col) == Contains(Lower(col), << "n", "a", "m", "e" >>)

IsNameColumn(col) == NameTest(Lower(col))

\* col_lower in ['state', 'state_name', 'state_code']
IsStateColumn(col) ==
  Lower(col) \in { << "s", "t", "a", "t", "e" >>,
                   << "s", "t", "a", "t", "e", "_", "n", "a", "m", "e" >>,
                   << "s", "t", "a", "t", "e", "_", "c", "o", "d", "e" >> }

\* col_lower in ['type', 'category', 'income_lvl']
IsTypeColumn(col) ==
  Lower(col) \in { << "t", "y", "p", "e" >>,
                   << "c", "a", "t", "e", "g", "o", "r", "y" >>,
                   << "i", "n", "c", "o", "m", "e", "_", "l", "v", "l" >> }

\* for col in columns: if ...: ...; break -- the index of the first column
\* that passes (the smallest of the indices that do), 0 when none does.
FirstOf(hits) == IF hits = {} THEN 0 ELSE CHOOSE i \in hits : \A j \in hits : i <= j

\* The value of a role that no column was found for.
NoColumn == << "<", "a", "b", "s", "e", "n", "t", ">" >>

ColumnOrNone(columns, i) == IF i = 0 THEN NoColumn ELSE columns[i]

\* The column_map dict, as a record over the three roles: the column found
\* for a role, NoColumn for a role that is no key of the dict.
detect_columns(d) ==
  [name  |-> ColumnOrNone(d.columns,
                          FirstOf({ i \in 1..Len(d.columns) : IsNameColumn(d.columns[i]) })),
   state |-> ColumnOrNone(d.columns,
                          FirstOf({ i \in 1..Len(d.columns) : IsStateColumn(d.columns[i]) })),
   type  |-> ColumnOrNone(d.columns,
                          FirstOf({ i \in 1..Len(d.columns) : IsTypeColumn(d.columns[i]) }))]

\* 'role' in column_map
InMap(column_map, role) == column_map[role] # NoColumn

\* numeric_count > len(self.df) * 0.5 for one column; the bare except skips
\* a label that names two columns (pd.to_numeric refuses a DataFrame).
IsNumericColumn(d, col) ==
  /\ ~IsDuplicated(d, col)
  /\ 2 * Len(NumericCells(Column(d, col))) > Len(d.rows)

get_numeric_columns(d) == SelectSeq(d.columns, LAMBDA col : IsNumericColumn(d, col))

\* ------------------------------------------------------------------------
\* Filters
\* ------------------------------------------------------------------------

\* ["(All)"] + values, as the combobox holds it: every entry a str.
WithAll(values) == << ALL >> \o [i \in 1..Len(values) |-> StrOfCell(values[i])]

\* ["(All)"] + sorted(self.df[col].dropna().unique().tolist())
FilterValues(d, col) == WithAll(sorted(dropna_unique(Column(d, col))))

\* 'role' in column_map and var.get() and var.get() != "(All)"
FilterActive(column_map, role, selection) ==
  /\ InMap(column_map, role)
  /\ selection # << >>
  /\ selection # ALL

\* df[df[col] == selection]: the selection is a str, so a cell that is a
\* number or missing never equals it.
RowsEqual(rows, j, selection) == SelectSeq(rows, LAMBDA row : row[j] = Text(selection))

\* One of the two filter steps of apply_filters.
FilterStep(d, rows, column_map, role, selection) ==
  IF FilterActive(column_map, role, selection)
  THEN RowsEqual(rows, ColIdx(d, column_map[role]), selection)
  ELSE rows

FilteredRows(d, column_map, state_sel, type_sel) ==
  FilterStep(d, FilterStep(d, d.rows, column_map, "state", state_sel),
             column_map, "type", type_sel)

apply_filters(d, state_sel, type_sel) ==
  IF empty(d) THEN d
  ELSE [columns |-> d.columns,
        rows |-> FilteredRows(d, detect_columns(d), state_sel, type_sel)]

\* ------------------------------------------------------------------------
\* Numbers shown on screen
\* ------------------------------------------------------------------------

RECURSIVE GCD(_, _)
GCD(a, b) == IF b = 0 THEN a ELSE GCD(b, a % b)

\* num/den by its greatest common divisor g.
Reduced(num, den, g) == IF g = 0 THEN << 0, 1 >> ELSE << num \div g, den \div g >>

\* The float num/den as a reduced fraction << num, den >>.
Frac(num, den) == Reduced(num, den, GCD(num, den))

\* The float NaN.
NaN == << >>

\* a >= b for two floats, NaN below every number.
FracGE(a, b) ==
  IF b = NaN THEN TRUE
  ELSE IF a = NaN THEN FALSE
  ELSE a[1] * b[2] >= b[1] * a[2]

MeanOf(cells) == IF cells = << >> THEN NaN ELSE Frac(SumCells(cells), Len(cells))

\* Series.mean() after to_numeric: NaN when no number is left.
mean(series) == MeanOf(NumericCells(series))

\* The k-th smallest number (1-based) of a sequence of numeric cells.
NthSmallest(cells, k) ==
  CHOOSE v \in { cells[i].n : i \in 1..Len(cells) } :
    /\ Cardinality({ i \in 1..Len(cells) : cells[i].n < v }) < k
    /\ Cardinality({ i \in 1..Len(cells) : cells[i].n <= v }) >= k

MedianOf(cells, n) ==
  IF n = 0 THEN NaN
  ELSE IF n % 2 = 1 THEN Frac(NthSmallest(cells, (n + 1) \div 2), 1)
  ELSE Frac(NthSmallest(cells, n \div 2) + NthSmallest(cells, (n \div 2) + 1), 2)

\* Series.median() after to_numeric: the middle number, or the mean of the
\* two middle numbers.
Median(cells) == MedianOf(cells, Len(cells))

median(series) == Median(NumericCells(series))

\* str.title() on a str whose "_" were replaced by " ".
TitleCase(spaced) ==
  [i \in 1..Len(spaced) |->
     IF i = 1 \/ ~(IsUpper(spaced[i - 1]) \/ IsLower(spaced[i - 1]))
     THEN UpperChar(spaced[i])
     ELSE LowerChar(spaced[i])]

\* metric.replace('_', ' ').title()
Title(metric) ==
  TitleCase([i \in 1..Len(metric) |-> IF metric[i] = "_" THEN " " ELSE metric[i]])

\* Which of the three number formats update_summary picks, from the
\* lower-cased name of the metric.
FormatFor(m) ==
  IF \/ Contains(m, << "c", "o", "s", "t" >>)
     \/ Contains(m, << "t", "u", "i", "t", "i", "o", "n" >>)
     \/ Contains(m, << "p", "r", "i", "c", "e" >>)
     \/ Contains(m, << "p", "a", "y" >>)
     \/ Contains(m, << "s", "a", "l", "a", "r", "y" >>)
  THEN "${:,.2f}"
  ELSE IF \/ Contains(m, << "p", "e", "r", "c", "e", "n", "t" >>)
          \/ Contains(m, << "p", "c", "t" >>)
  THEN "{:.1f}%"
  ELSE "{:,.2f}"

NumberFormat(metric) == FormatFor(Lower(metric))

\* ------------------------------------------------------------------------
\* Summary labels
\* ------------------------------------------------------------------------

\* The text of one tk.Label: a caption, then either "N/A" (value = << >>) or
\* a number (a count << n >>, or a float << num, den >> in format fmt), for
\* the metric named.
Label(caption, metric, fmt, value) ==
  [metric |-> metric, caption |-> caption, fmt |-> fmt, value |-> value]

NotAvailable(caption) == Label(caption, << >>, "", << >>)

IsNotAvailable(label) == label.value = << >>

\* self.metric_labels as create_main_area leaves it.
InitialLabels ==
  [universities |-> NotAvailable("Universities"),
   avg_funding  |-> NotAvailable("Avg Funding"),
   avg_grad     |-> NotAvailable("Avg Graduation Rate")]

\* The "Universities: n" / "Records: n" label.
CountLabel(view, column_map) ==
  IF InMap(column_map, "name")
  THEN Label("Universities", << >>, "{}",
             << Cardinality(dropna_unique(Column(view, column_map["name"]))) >>)
  ELSE Label("Records", << >>, "{}", << Len(view.rows) >>)

\* The two metric labels, from the mean and the median of the metric.
MetricLabels(universities, metric, avg_value, median_value) ==
  IF avg_value # NaN
  THEN [universities |-> universities,
        avg_funding  |-> Label("Avg", Title(metric), NumberFormat(metric), avg_value),
        avg_grad     |-> Label("Median", Title(metric), NumberFormat(metric),
                               median_value)]
  ELSE [universities |-> universities,
        avg_funding  |-> NotAvailable("Avg"),
        avg_grad     |-> NotAvailable("Median")]

\* The labels update_summary writes for a view of a frame that is not empty.
SummaryOf(view, column_map, metric) ==
  IF metric # << >> /\ HasColumn(view, metric)
  THEN MetricLabels(CountLabel(view, column_map), metric,
                    mean(Column(view, metric)), median(Column(view, metric)))
  ELSE [universities |-> CountLabel(view, column_map),
        avg_funding  |-> NotAvailable("Avg Funding"),
        avg_grad     |-> NotAvailable("Avg Graduation Rate")]

\* The labels after update_summary, given the labels before it.
update_summary(d, state_sel, type_sel, metric, labels) ==
  IF empty(d) THEN labels
  ELSE SummaryOf(apply_filters(d, state_sel, type_sel), detect_columns(d), metric)

\* ------------------------------------------------------------------------
\* Chart
\* ------------------------------------------------------------------------

\* nlargest(10)
TopN == 10

\* What self.chart_frame shows: nothing ("none": no child widget), the bar
\* chart of the per-state means, the "No valid data for selected metric" text
\* ("placeholder"), or the histogram of the metric's values.
Chart(kind, metric, bars, values) ==
  [values |-> values, metric |-> metric, kind |-> kind, bars |-> bars]

NoChart == Chart("none", << >>, {}, << >>)

\* The metric cells of the rows whose state cell is key.
GroupCells(rows, state_idx, metric_idx, key) ==
  ColumnAt(SelectSeq(rows, LAMBDA row : row[state_idx] = key), metric_idx)

\* df_plot.groupby(state_col)[metric].mean(): one entry per distinct
\* non-missing state value, its mean NaN when no row of the group has a number.
GroupMeans(rows, state_idx, metric_idx) ==
  { [mean |-> mean(GroupCells(rows, state_idx, metric_idx, k)), key |-> StrOfCell(k)]
    : k \in dropna_unique(ColumnAt(rows, state_idx)) }

\* The n entries of pool with the largest means, all of pool when it has no
\* more than n.
Largest(pool, n) ==
  IF Cardinality(pool) <= n THEN pool
  ELSE CHOOSE top \in SUBSET pool :
         /\ Cardinality(top) = n
         /\ \A g \in top : \A h \in pool \ top : FracGE(g.mean, h.mean)

\* Series.nlargest(n).  keeps_nan tells the pandas release apart: older
\* releases drop the NaN entries before they select, newer ones return them
\* after the numbers.
nlargest(groups, n, keeps_nan) ==
  Largest(IF keeps_nan THEN groups ELSE { g \in groups : g.mean # NaN }, n)

BarChart(metric, grouped) ==
  IF grouped # {}
  THEN Chart("bar", Title(metric), grouped, << >>)
  ELSE Chart("placeholder", << >>, {}, << >>)

Histogram(metric, numbers) ==
  Chart("hist", Title(metric), {}, [i \in 1..Len(numbers) |-> numbers[i].n])

\* The figure update_charts draws for a view whose metric column exists.
Plot(view, column_map, metric, keeps_nan) ==
  IF InMap(column_map, "state")
  THEN BarChart(metric,
                nlargest(GroupMeans(view.rows, ColIdx(view, column_map["state"]),
                                    ColIdx(view, metric)),
                         TopN, keeps_nan))
  ELSE Histogram(metric, NumericCells(Column(view, metric)))

\* ------------------------------------------------------------------------
\* Preview table
\* ------------------------------------------------------------------------

\* df.head(30)
PreviewRows == 30

\* len(display_cols) < 4
MaxDisplayCols == 4

\* str(val)[:50]
TruncLen == 50

\* The dtype of a column from the kinds of cell in it: int64 when every cell
\* is an int, float64 when NaN is among them (or every cell is NaN), object
\* otherwise.
DtypeOf(tags) ==
  IF tags = {} THEN "object"
  ELSE IF tags \subseteq {"Num"} THEN "int64"
  ELSE IF tags \subseteq {"Num", "NaN"} THEN "float64"
  ELSE "object"

Dtype(d, j) == DtypeOf({ d.rows[i][j].tag : i \in 1..Len(d.rows) })

\* iterrows() hands each row over as one Series: without an object column
\* the ints of the row are upcast to float as soon as one column is float64.
RowIsFloat(d, j) ==
  \/ Dtype(d, j) = "float64"
  \/ /\ \A k \in 1..Len(d.columns) : Dtype(d, k) # "object"
     /\ \E k \in 1..Len(d.columns) : Dtype(d, k) = "float64"

\* The first n characters of a str.
Truncated(str, n) == SubSeq(str, 1, IF Len(str) < n THEN Len(str) ELSE n)

\* One cell of the Treeview: "N/A", a float as {:,.2f}, or str(val)[:50].
TableCell(val, is_float) ==
  IF isna(val) THEN [n |-> 0, fmt |-> "N/A", text |-> << >>]
  ELSE IF val.tag = "Num" /\ is_float THEN [n |-> val.n, fmt |-> "{:,.2f}", text |-> << >>]
  ELSE [n |-> 0, fmt |-> "str", text |-> Truncated(StrOfCell(val), TruncLen)]

\* col in display_cols
InCols(cols, col) == \E i \in 1..Len(cols) : cols[i] = col

\* The name and state columns of display_cols.
RoleCols(column_map) ==
  (IF InMap(column_map, "name") THEN << column_map["name"] >> ELSE << >>)
  \o (IF InMap(column_map, "state") THEN << column_map["state"] >> ELSE << >>)

\* ... then the current metric, unless it is there already.
WithMetric(cols, view, metric) ==
  IF metric # << >> /\ HasColumn(view, metric) /\ ~InCols(cols, metric)
  THEN cols \o << metric >>
  ELSE cols

\* At most the first element of a sequence.
FirstOnly(seq) == IF seq = << >> THEN << >> ELSE << Head(seq) >>

\* ... then the first numeric column not there yet, while there is room.
WithNumeric(cols, numeric_cols) ==
  cols \o FirstOnly(SelectSeq(numeric_cols,
                              LAMBDA col : ~InCols(cols, col) /\ Len(cols) < MaxDisplayCols))

\* display_cols as update_table builds it.
DisplayCols(d, view, column_map, metric) ==
  WithNumeric(WithMetric(RoleCols(column_map), view, metric), get_numeric_columns(d))

\* col_headers: "Name", "State", and the title of any other column.
ColHeader(column_map, col) ==
  IF InMap(column_map, "name") /\ col = column_map["name"] THEN << "N", "a", "m", "e" >>
  ELSE IF InMap(column_map, "state") /\ col = column_map["state"]
  THEN << "S", "t", "a", "t", "e" >>
  ELSE Title(col)

\* The Treeview showing rows under the columns display_cols.
TableOf(d, rows, column_map, display_cols) ==
  [columns |-> [i \in 1..Len(display_cols) |-> ColHeader(column_map, display_cols[i])],
   rows |-> [r \in 1..Len(rows) |->
               [i \in 1..Len(display_cols) |->
                  TableCell(rows[r][ColIdx(d, display_cols[i])],
                            RowIsFloat(d, ColIdx(d, display_cols[i])))]]]

\* The Treeview after update_table(view, column_map), self.df being d.
update_table(d, view, column_map, metric) ==
  TableOf(d, SubSeq(view.rows, 1,
                    IF Len(view.rows) < PreviewRows THEN Len(view.rows) ELSE PreviewRows),
          column_map, DisplayCols(d, view, column_map, metric))

\* self.table as create_main_area leaves it.
InitialTable ==
  [columns |-> << << "N", "a", "m", "e" >>, << "S", "t", "a", "t", "e" >>,
                  << "F", "u", "n", "d", "i", "n", "g" >>,
                  << "G", "r", "a", "d", "R", "a", "t", "e" >> >>,
   rows |-> << >>]

\* ------------------------------------------------------------------------
\* Data providers
\* ------------------------------------------------------------------------

\* The first n elements of a sequence, all of it when it has fewer.
head(seq, n) == SubSeq(seq, 1, IF Len(seq) < n THEN Len(seq) ELSE n)

\* A CSV file is its header line and its records, every field a str as it
\* stands in the file ("" for an empty field).
CsvFile(header, rows) == [rows |-> rows, header |-> header]

\* pd.read_csv(file_path): the header as written, one row per record; an
\* empty field is NaN, a column whose fields are all digits holds ints, any
\* other column holds the fields as str.
read_csv(file) ==
  LET all_digits(j) ==
        \A i \in 1..Len(file.rows) :
          file.rows[i][j] = << >> \/ IsDigitStr(file.rows[i][j])
      cell(i, j) ==
        IF file.rows[i][j] = << >> THEN NaNCell
        ELSE IF all_digits(j) THEN Num(NatOfStr(file.rows[i][j]))
        ELSE Text(file.rows[i][j])
  IN  [columns |-> file.header,
       rows |-> [i \in 1..Len(file.rows) |->
                   [j \in 1..Len(file.header) |-> cell(i, j)]]]

\* self.df.columns = [c.strip() for c in self.df.columns]
strip_columns(d) ==
  [columns |-> [i \in 1..Len(d.columns) |-> Strip(d.columns[i])], rows |-> d.rows]

\* The files offered to the file dialog: under each header, the files that
\* hold the first n of the records listed with it, for every n from 1 up
\* to MaxRows; and two files that hold a header line and no record.
TuitionHeader ==
  << << "S", "c", "h", "o", "o", "l", " ", "N", "a", "m", "e" >>,
     << "S", "t", "a", "t", "e" >>,
     << "T", "y", "p", "e" >>,
     << "c", "o", "s", "t" >> >>

TuitionRecords ==
  << << << "A" >>, << "C", "A" >>, << "P", "u", "b", "l", "i", "c" >>, << "1", "0" >> >>,
     << << "B" >>, << "C", "A" >>, << "P", "r", "i", "v", "a", "t", "e" >>, << "2", "0" >> >>,
     << << "C" >>, << "T", "X" >>, << "P", "u", "b", "l", "i", "c" >>, << >> >>,
     << << "A" >>, << >>, << "P", "r", "i", "v", "a", "t", "e" >>, << "x" >> >> >>

PayHeader == << << " ", "T", "y", "p", "e", " " >>, << "p", "a", "y" >> >>

PayRecords ==
  << << << "X" >>, << >> >>,
     << ALL, << "5" >> >>,
     << ALL, << "7" >> >>,
     << << "X" >>, << "9" >> >> >>

CodeHeader ==
  << << "S", "T", "A", "T", "E", "_", "C", "O", "D", "E" >>,
     << "t", "u", "i", "t", "i", "o", "n" >> >>

CodeRecords ==
  << << << "1", "0" >>, << "3" >> >>,
     << << "9" >>, << "x" >> >> >>

\* A header line in which two names differ in blanks only.  It is offered
\* without records, so that every handler that runs on the loaded frame
\* afterwards returns at its self.df.empty test.
BlankPaddedHeader == << << "s", "t", "a", "t", "e" >>, << " ", "s", "t", "a", "t", "e" >> >>

HeaderOnlyFiles == { CsvFile(PayHeader, << >>), CsvFile(BlankPaddedHeader, << >>) }

CsvFiles ==
  { CsvFile(TuitionHeader, head(TuitionRecords, n)) : n \in 1..MaxRows }
  \cup { CsvFile(PayHeader, head(PayRecords, n)) : n \in 1..MaxRows }
  \cup { CsvFile(CodeHeader, head(CodeRecords, n)) : n \in 1..MaxRows }
  \cup HeaderOnlyFiles

\* The column aliases of the SELECT in load_main_dataframe.
DbColumns ==
  << << "u", "n", "i", "v", "e", "r", "s", "i", "t", "y", "_", "n", "a", "m", "e" >>,
     << "s", "t", "a", "t", "e" >>,
     << "t", "y", "p", "e" >>,
     << "f", "u", "n", "d", "i", "n", "g", "_", "p", "e", "r", "_",
        "s", "t", "u", "d", "e", "n", "t" >>,
     << "g", "r", "a", "d", "u", "a", "t", "i", "o", "n", "_", "r", "a", "t", "e" >> >>

\* Rows of tuition_cost: name, state, type, in_state_total, and the NULL the
\* query selects as graduation_rate.  A state may be the empty string.
DbRows ==
  << << Text(<< "A" >>), Text(<< "C", "A" >>), Text(<< "P", "u", "b", "l", "i", "c" >>),
        Num(10), NoneCell >>,
     << Text(<< "B" >>), Text(<< >>), Text(<< "P", "u", "b", "l", "i", "c" >>),
        Num(20), NoneCell >> >>

\* What load_main_dataframe() can return.
DbResults == { [columns |-> DbColumns, rows |-> head(DbRows, n)] : n \in 0..MaxRows }

\* ------------------------------------------------------------------------
\* State of the window
\* ------------------------------------------------------------------------

VARIABLES
  df,                \* self.df
  state_var,         \* self.state_var, the text of the state combobox
  type_var,          \* self.type_var
  metric_var,        \* self.metric_var
  state_values,      \* self.state_combo["values"]
  type_values,       \* self.type_combo["values"]
  metric_values,     \* self.metric_combo["values"]
  metric_labels,     \* self.metric_labels
  chart,             \* what self.chart_frame shows
  table,             \* self.table
  msgs,              \* the message boxes the last handler showed, in order
  nlargest_keeps_nan \* the installed pandas: does Series.nlargest return NaN

vars == << df, state_var, type_var, metric_var, state_values, type_values,
           metric_values, metric_labels, chart, table, msgs,
           nlargest_keeps_nan >>

\* The widgets and variables a handler can change, as one record.
Widgets ==
  [state_var |-> state_var, type_var |-> type_var, metric_var |-> metric_var,
   state_values |-> state_values, type_values |-> type_values,
   metric_values |-> metric_values, metric_labels |-> metric_labels,
   chart |-> chart, table |-> table, msgs |-> << >>, raised |-> FALSE]

\* A handler ends with the widgets as in w.
Show(w) ==
  /\ state_var' = w.state_var
  /\ type_var' = w.type_var
  /\ metric_var' = w.metric_var
  /\ state_values' = w.state_values
  /\ type_values' = w.type_values
  /\ metric_values' = w.metric_values
  /\ metric_labels' = w.metric_labels
  /\ chart' = w.chart
  /\ table' = w.table
  /\ msgs' = w.msgs
  /\ UNCHANGED nlargest_keeps_nan

\* messagebox.showinfo / showwarning / showerror
MessageBox(w, kind, title) ==
  [w EXCEPT !.msgs = Append(@, [kind |-> kind, title |-> title])]

Init ==
  /\ df = EmptyDataFrame
  /\ state_var = << >>
  /\ type_var = << >>
  /\ metric_var = << >>
  /\ state_values = << >>
  /\ type_values = << >>
  /\ metric_values = << >>
  /\ metric_labels = InitialLabels
  /\ chart = NoChart
  /\ table = InitialTable
  /\ msgs = << >>
  /\ nlargest_keeps_nan \in BOOLEAN

\* ------------------------------------------------------------------------
\* Handlers
\* ------------------------------------------------------------------------

\* update_charts from "metric = self.metric_var.get()" on: warn and return,
\* or draw the figure and fill the table.
DrawOrWarn(d, view, column_map, w, keeps_nan) ==
  IF w.metric_var = << >> \/ ~HasColumn(view, w.metric_var)
  THEN MessageBox(w, "warning", "Missing Column")
  ELSE [w EXCEPT !.chart = Plot(view, column_map, w.metric_var, keeps_nan),
                 !.table = update_table(d, view, column_map, w.metric_var)]

\* update_charts up to there: self.update_summary(), then every child of
\* self.chart_frame is destroyed.
SummariseAndClear(d, w) ==
  [w EXCEPT !.metric_labels = update_summary(d, w.state_var, w.type_var,
                                             w.metric_var, w.metric_labels),
            !.chart = NoChart]

\* update_charts on frame d, starting from widgets w.
update_charts(d, w, keeps_nan) ==
  IF empty(d) THEN MessageBox(w, "warning", "No Data")
  ELSE DrawOrWarn(d, apply_filters(d, w.state_var, w.type_var), detect_columns(d),
                  SummariseAndClear(d, w), keeps_nan)

\* combo["values"] = values; combo.current(0)
FillCombo(w, role, values) ==
  IF role = "state"
  THEN [w EXCEPT !.state_values = values, !.state_var = values[1]]
  ELSE [w EXCEPT !.type_values = values, !.type_var = values[1]]

\* One filter block of setup_ui_after_load.  self.df[col].dropna().unique()
\* raises when col names two columns (a DataFrame has no unique()).
SetupFilter(d, column_map, role, w) ==
  IF w.raised THEN w
  ELSE IF ~InMap(column_map, role) THEN FillCombo(w, role, << ALL >>)
  ELSE IF IsDuplicated(d, column_map[role]) THEN [w EXCEPT !.raised = TRUE]
  ELSE FillCombo(w, role, FilterValues(d, column_map[role]))

\* if numeric_cols: ... else: ...
FillMetric(w, numeric_cols) ==
  IF numeric_cols # << >>
  THEN [w EXCEPT !.metric_values = numeric_cols, !.metric_var = numeric_cols[1]]
  ELSE MessageBox([w EXCEPT !.metric_values = << >>], "warning", "No Numeric Columns")

\* The metric block of setup_ui_after_load.
SetupMetric(d, w) == IF w.raised THEN w ELSE FillMetric(w, get_numeric_columns(d))

\* self.update_summary()
Summarise(d, w) ==
  [w EXCEPT !.metric_labels = update_summary(d, w.state_var, w.type_var,
                                             w.metric_var, w.metric_labels)]

\* self.update_summary(); self.update_charts()
SetupRefresh(d, w, keeps_nan) ==
  IF w.raised THEN w ELSE update_charts(d, Summarise(d, w), keeps_nan)

SetupWith(d, column_map, w, keeps_nan) ==
  SetupRefresh(d,
    SetupMetric(d,
      SetupFilter(d, column_map, "type",
        SetupFilter(d, column_map, "state", w))),
    keeps_nan)

setup_ui_after_load(d, w, keeps_nan) == SetupWith(d, detect_columns(d), w, keeps_nan)

\* The end of both load handlers: the "Data Loaded" box, or the except
\* clause with the error box.
Report(w, error_title) ==
  IF w.raised THEN MessageBox(w, "error", error_title)
  ELSE MessageBox(w, "info", "Data Loaded")

\* Both load handlers once the new frame d is in self.df with its column
\* names stripped: set the widgets up and report.  An exception of the setup
\* is caught and reported; self.df stays as assigned.
Install(d, error_title) ==
  /\ df' = d
  /\ Show(Report(setup_ui_after_load(d, Widgets, nlargest_keeps_nan), error_title))

\* "Load CSV Dataset"
load_csv ==
  \/ \* the file dialog is dismissed
     /\ UNCHANGED df
     /\ Show(Widgets)
  \/ \* pd.read_csv raises: no such file, no permission, nothing to parse
     /\ UNCHANGED df
     /\ Show(MessageBox(Widgets, "error", "Error"))
  \/ \E file \in CsvFiles :
       Install(strip_columns(read_csv(file)), "Error")

\* "Load from Database"
load_data_from_db ==
  \/ \* load_main_dataframe raises: no connection, the query fails
     /\ UNCHANGED df
     /\ Show(MessageBox(Widgets, "error", "Database Error"))
  \/ \E result \in DbResults :
       IF empty(result)
       THEN /\ UNCHANGED df
            /\ Show(MessageBox(Widgets, "warning", "No Data"))
       ELSE Install(strip_columns(result), "Database Error")

\* The user picks an entry of one of the three read-only comboboxes.
select_state ==
  \E i \in 1..Len(state_values) :
    /\ UNCHANGED df
    /\ Show([Widgets EXCEPT !.state_var = state_values[i]])

select_type ==
  \E i \in 1..Len(type_values) :
    /\ UNCHANGED df
    /\ Show([Widgets EXCEPT !.type_var = type_values[i]])

select_metric ==
  \E i \in 1..Len(metric_values) :
    /\ UNCHANGED df
    /\ Show([Widgets EXCEPT !.metric_var = metric_values[i]])

\* "Update Charts"
press_update_charts ==
  /\ UNCHANGED df
  /\ Show(update_charts(df, Widgets, nlargest_keeps_nan))

Next ==
  \/ load_csv
  \/ load_data_from_db
  \/ select_state
  \/ select_type
  \/ select_metric
  \/ press_update_charts

Spec == Init /\ [][Next]_vars

\* ------------------------------------------------------------------------
\* detect_columns over a catalogue of headers
\* ------------------------------------------------------------------------

\* Largest number of columns of a header drawn from the catalogue.
MaxCols == 3

\* Column names: every name the state and type tests accept, names that
\* pass the name test, names that hold both 'name' and 'state', and one that
\* no test accepts.
HeaderNames ==
  { << "s", "t", "a", "t", "e" >>,
    << "S", "t", "a", "t", "e", "_", "N", "a", "m", "e" >>,
    << "s", "t", "a", "t", "e", "_", "c", "o", "d", "e" >>,
    << "t", "y", "p", "e" >>,
    << "C", "a", "t", "e", "g", "o", "r", "y" >>,
    << "i", "n", "c", "o", "m", "e", "_", "l", "v", "l" >>,
    << "n", "a", "m", "e" >>,
    << "c", "o", "s", "t" >> }

\* The header lines of up to MaxCols columns, no name twice.
Headers ==
  UNION { { h \in [1..n -> HeaderNames] : \A i, j \in 1..n : i # j => h[i] # h[j] }
          : n \in 1..MaxCols }

\* "Load CSV Dataset" as the first thing done in the window, on a file that
\* holds one of the header lines and no record.
load_csv_header ==
  /\ df = EmptyDataFrame
  /\ \E header \in Headers :
       Install(strip_columns(read_csv(CsvFile(header, << >>))), "Error")

SpecRoles == Init /\ [][load_csv_header]_vars

\* ------------------------------------------------------------------------
\* Properties
\* ------------------------------------------------------------------------

\* The last message box of the last handler.
LastBox(kind, title) ==
  msgs # << >> /\ msgs[Len(msgs)] = [kind |-> kind, title |-> title]

\* The last handler was a load that ended with "Data Loaded".
Loaded == LastBox("info", "Data Loaded")

\* The last handler was a load that ended in its except clause.
LoadFailed == LastBox("error", "Error") \/ LastBox("error", "Database Error")

\* The roles, and per role the selection and the option list on screen.
Roles == {"state", "type"}

SelectionOf(role) == IF role = "state" THEN state_var ELSE type_var

OptionsOf(role) == IF role = "state" THEN state_values ELSE type_values

\* The distinct non-missing values of the column found for a role.
ValuesOf(role) == dropna_unique(Column(df, detect_columns(df)[role]))

\* The filtered view of the current Dataset under the current selections.
View == apply_filters(df, state_var, type_var)

FirstOrNone(seq) == IF seq = << >> THEN << >> ELSE seq[1]

\* C1.  Selections refer to the current Dataset.  While a Dataset with rows
\* is loaded, each filter selection is "(All)" or the text of a value of the
\* column found for its role, and the metric selection is one of the numeric
\* columns (none being selected when there is none).  After a load that
\* reported "Data Loaded" both filters are at "(All)" and the metric is the
\* first numeric column, no metric being selected when the Dataset has none.
C1_SelectionsReferToDataset ==
  /\ ~empty(df) =>
       /\ \A role \in Roles :
            \/ SelectionOf(role) = ALL
            \/ /\ InMap(detect_columns(df), role)
               /\ \E v \in ValuesOf(role) : StrOfCell(v) = SelectionOf(role)
       /\ IF get_numeric_columns(df) = << >>
          THEN metric_var = << >>
          ELSE InCols(get_numeric_columns(df), metric_var)
  /\ Loaded =>
       /\ \A role \in Roles : SelectionOf(role) = ALL
       /\ metric_var = FirstOrNone(get_numeric_columns(df))

\* C2.  A load that ends in a reported error leaves self.df as it was.
C2_FailedLoadKeepsDataset == [][LoadFailed' => df' = df]_vars

\* C3.  A load that yields zero rows leaves a non-empty Dataset loaded before
\* it in place.  (The step is recognised by what it leaves behind: "Data
\* Loaded" over a frame without rows; the database handler, which returns
\* before it assigns self.df, never takes such a step.)
C3_ZeroRowLoadKeepsDataset ==
  [][(~empty(df) /\ Loaded' /\ Len(df'.rows) = 0) => df' = df]_vars

\* C4.  A press of "Update Charts" that ends with the "Missing Column"
\* warning leaves chart, table and summary labels as they were.
C4_MissingMetricKeepsDisplay ==
  [][(press_update_charts
        /\ msgs' = << [kind |-> "warning", title |-> "Missing Column"] >>)
     => (chart' = chart /\ table' = table /\ metric_labels' = metric_labels)]_vars

\* A row passes the filter of a role when the role has no column, the
\* selection is "(All)", or the row's cell in the role's column is the
\* selection.
Passes(row, role) ==
  \/ ~InMap(detect_columns(df), role)
  \/ SelectionOf(role) = ALL
  \/ row[ColIdx(df, detect_columns(df)[role])] = Text(SelectionOf(role))

\* C5.  apply_filters returns, in order, exactly the rows that pass the state
\* filter and the type filter.
C5_FilterKeepsExactMatches ==
  View.rows = SelectSeq(df.rows, LAMBDA row : \A role \in Roles : Passes(row, role))

\* Every summary label reads "N/A".
AllNotAvailable(labels) == \A k \in DOMAIN labels : IsNotAvailable(labels[k])

\* C6.  After "Update Charts" on a Dataset of which no row passes the
\* filters, every summary label reads "N/A": none shows a count of zero.
C6_EmptyViewNotAvailable ==
  [][(press_update_charts /\ ~empty(df) /\ Len(View.rows) = 0)
     => AllNotAvailable(metric_labels')]_vars

\* The metric selected is a column of the view and no cell of it parses as a
\* number.
MetricWithoutNumbers ==
  /\ metric_var # << >>
  /\ HasColumn(View, metric_var)
  /\ NumericCells(Column(View, metric_var)) = << >>

\* C7.  After "Update Charts" with a metric that holds no number in the
\* filtered view, the chart frame shows the "No valid data" placeholder.
C7_NoNumbersPlaceholder ==
  [][(press_update_charts /\ ~empty(df) /\ MetricWithoutNumbers)
     => chart'.kind = "placeholder"]_vars

\* The option list of a role holds "(All)", then the text of every distinct
\* non-missing value of the role's column once ("(All)" alone when no column
\* has the role), and "(All)" is selected.
OptionsListValues(role) ==
  /\ OptionsOf(role) # << >>
  /\ OptionsOf(role)[1] = ALL
  /\ SelectionOf(role) = ALL
  /\ IF InMap(detect_columns(df), role)
     THEN /\ Len(OptionsOf(role)) = 1 + Cardinality(ValuesOf(role))
          /\ \A v \in ValuesOf(role) :
               \E i \in 2..Len(OptionsOf(role)) : OptionsOf(role)[i] = StrOfCell(v)
     ELSE OptionsOf(role) = << ALL >>

\* The options after "(All)" ascend in the order of the values themselves:
\* numbers by value, str by code point.
OptionsInValueOrder(role) ==
  InMap(detect_columns(df), role) =>
    \A v, w \in ValuesOf(role) :
      \A i, j \in 2..Len(OptionsOf(role)) :
        (i < j /\ OptionsOf(role)[i] = StrOfCell(v) /\ OptionsOf(role)[j] = StrOfCell(w))
          => CellLess(v, w)

\* The options after "(All)" ascend as str.
OptionsInStrOrder(role) ==
  \A i, j \in 2..Len(OptionsOf(role)) :
    i < j => StrLess(OptionsOf(role)[i], OptionsOf(role)[j])

\* C8, as amended.  After a load that reported "Data Loaded", the option
\* list of each filter is "(All)" followed by the distinct non-missing values
\* of the role's column in ascending order of the values (9 before 10), just
\* "(All)" when the role is absent, and "(All)" is selected.
C8_OptionsSortedByValue ==
  Loaded => \A role \in Roles : OptionsListValues(role) /\ OptionsInValueOrder(role)

\* C8 is exercised: a load has offered at least two numbers as state options.
C8_NumericOptionsOffered ==
  /\ Loaded
  /\ InMap(detect_columns(df), "state")
  /\ Cardinality({ v \in ValuesOf("state") : v.tag = "Num" }) >= 2

\* C8, as stated.  The same, with the values in ascending order of their
\* string form (10 before 9).
C8_OptionsSortedByStr ==
  Loaded => \A role \in Roles : OptionsListValues(role) /\ OptionsInStrOrder(role)

\* Two roles of a column_map name one column.
SharesAColumn(column_map) ==
  \E r1, r2 \in {"name", "state", "type"} :
    r1 # r2 /\ InMap(column_map, r1) /\ column_map[r1] = column_map[r2]

\* C9, as amended.  detect_columns never gives one column two roles: the
\* columns found for name, state and type are pairwise different.
C9_RolesNameDifferentColumns == ~SharesAColumn(detect_columns(df))

\* C9 is exercised: the loaded header holds a column whose name has both
\* 'name' and 'state' in it, that column has the state role, and another
\* column has the name role.
C9_StateNameColumnLoaded ==
  /\ InMap(detect_columns(df), "name")
  /\ InMap(detect_columns(df), "state")
  /\ Contains(Lower(detect_columns(df).state), << "n", "a", "m", "e" >>)

\* C9, as stated.  Some header of unique column names, one of the catalogue
\* or the one loaded, gives one column two roles.
C9_SomeHeaderSharesAColumn ==
  \E header \in Headers \cup { df.columns } :
    SharesAColumn(detect_columns([columns |-> header, rows |-> << >>]))

\* The rows whose cell in the role's column reads as the option.
RowsHolding(role, option) ==
  SelectSeq(df.rows,
            LAMBDA row : /\ notna(row[ColIdx(df, detect_columns(df)[role])])
                         /\ StrOfCell(row[ColIdx(df, detect_columns(df)[role])]) = option)

\* The view after the option is picked in the role's combobox, the other
\* combobox left alone.
ViewAfterPick(role, option) ==
  IF role = "state" THEN apply_filters(df, option, type_var)
  ELSE apply_filters(df, state_var, option)

\* C10.  After a load that reported "Data Loaded", picking any option after
\* the first of a filter list gives a view that is not empty and holds exactly
\* the rows whose cell in the role's column reads as that option.
C10_EveryOptionSelectsItsRows ==
  Loaded =>
    \A role \in Roles :
      \A i \in 2..Len(OptionsOf(role)) :
        /\ ViewAfterPick(role, OptionsOf(role)[i]).rows # << >>
        /\ ViewAfterPick(role, OptionsOf(role)[i]).rows
             = RowsHolding(role, OptionsOf(role)[i])

====
